---- MODULE Spec2Model ----
(***************************************************************************)
(* Connection-interaction engine of the node editor                        *)
(* (nodeeditor/node_connection_interaction.py): can_connect, try_connect,  *)
(* disconnect and node_port_is_empty over Node Port State and Connection   *)
(* State.                                                                  *)
(***************************************************************************)
EXTENDS Integers, Sequences, FiniteSets, TLC

\* ------------------------------------------------------------------ bounds
\* ports per direction of every node (indices 0 .. NumPorts - 1)
NumPorts == 2

\* the scene: two nodes and two connections
Nodes == {1, 2}
Conns == {1, 2}
PortIndexes == 0 .. (NumPorts - 1)

\* ------------------------------------------------------- port addressing
\* PortType.none / PortType.input / PortType.output
PortNone == "none"
PortInput == "input"
PortOutput == "output"
Directions == {PortInput, PortOutput}

\* the hit-test's "no port" sentinel and the absent node
INVALID == 0 - 1
NoNode == 0

opposite_port(port) ==
    IF port = PortInput THEN PortOutput
    ELSE IF port = PortOutput THEN PortInput
    ELSE PortNone

\* ------------------------------------------------- node data models (static)
DataTypes == {"T1", "T2"}

\* model.data_type(port_type, port_index) of node n
data_type(n, port_type, port_index) ==
    IF port_type = PortOutput
    THEN (IF port_index % 2 = 0 THEN "T1" ELSE "T2")
    ELSE (IF (n + port_index) % 2 = 0 THEN "T1" ELSE "T2")

\* model.port_out_connection_policy(port_index) of node n
port_out_connection_policy(n, port_index) ==
    IF (n + port_index) % 2 = 1 THEN "many" ELSE "one"

\* ------------------------------------------------------ type converters
\* A converter is the pair <<from, to>> it was registered for; the
\* default/identity converter is the empty (falsy) value.
DefaultTypeConverter == << >>
RegisteredConverters == { <<"T1", "T2">> }

\* registry.get_type_converter(d1, d2): the converter, or the "no converter"
\* connection failure
get_type_converter(d1, d2) ==
    IF <<d1, d2>> \in RegisteredConverters
    THEN [exc |-> "ok", converter |-> <<d1, d2>>]
    ELSE [exc |-> "NoConverter", converter |-> DefaultTypeConverter]

\* ------------------------------------------------------------------ state
VARIABLES
    entries,        \* Node Port State: entries[n][d][i] = connections at the slot
    conn_node,      \* Connection State: conn_node[c][d] = bound node or NoNode
    conn_port,      \* Connection State: conn_port[c][d] = bound index or INVALID
    required_port,  \* Connection State: required_port[c]
    converter,      \* Connection State: attached type converter
    last            \* the last engine call: inputs, outcome, callbacks, state before

vars == <<entries, conn_node, conn_port, required_port, converter, last>>

\* The state as one record (what a collaborator callback can observe).
State(e, cn, cp, rp, cv) ==
    [entries |-> e, conn_node |-> cn, conn_port |-> cp,
     required_port |-> rp, converter |-> cv]

Current == State(entries, conn_node, conn_port, required_port, converter)

\* ------------------------------------------- collaborators' state accessors
\* connection.get_node(port_type)
get_node(s, c, port_type) ==
    IF port_type \in Directions THEN s.conn_node[c][port_type] ELSE NoNode

\* connection.get_port_index(port_type)
get_port_index(s, c, port_type) ==
    IF port_type \in Directions THEN s.conn_port[c][port_type] ELSE INVALID

\* node.state.set_connection(port_type, port_index, connection)
set_connection(s, n, port_type, port_index, c) ==
    [s EXCEPT !.entries[n][port_type][port_index] = @ \cup {c}]

\* node.state.erase_connection(port_type, port_index, connection)
erase_connection(s, n, port_type, port_index, c) ==
    IF port_index \in PortIndexes
    THEN [s EXCEPT !.entries[n][port_type][port_index] = @ \ {c}]
    ELSE s

\* connection.set_node_to_port(node, port_type, port_index): binds the end;
\* "the port is not longer required after" it
set_node_to_port(s, c, n, port_type, port_index) ==
    [s EXCEPT !.conn_node[c][port_type] = n,
              !.conn_port[c][port_type] = port_index,
              !.required_port[c] = PortNone]

\* connection.clear_node(port_type)
clear_node(s, c, port_type) ==
    [s EXCEPT !.conn_node[c][port_type] = NoNode,
              !.conn_port[c][port_type] = INVALID]

\* connection.set_type_converter(converter)
set_type_converter(s, c, conv) ==
    [s EXCEPT !.converter[c] = conv]

\* connection.required_port = port_type
set_required_port(s, c, port_type) ==
    [s EXCEPT !.required_port[c] = port_type]

\* connection.data_type(port_type): the type of the port the end is bound to;
\* `unknown` is what the collaborator answers for an end that is not bound.
connection_data_type(s, c, port_type, unknown) ==
    IF get_node(s, c, port_type) # NoNode
    THEN data_type(get_node(s, c, port_type), port_type,
                   get_port_index(s, c, port_type))
    ELSE unknown

\* Bidirectional consistency of a state: a slot records c iff c's end is
\* bound to the slot.
Consistent(s) ==
    \A n \in Nodes, d \in Directions, i \in PortIndexes, c \in Conns :
        (c \in s.entries[n][d][i]) <=>
            (s.conn_node[c][d] = n /\ s.conn_port[c][d] = i)

\* ------------------------------------------------- the interaction engine
\* connection_required_port: connection.state.required_port
connection_required_port(s, c) == s.required_port[c]

\* can_connect, 1) Connection requires a port
requires_port_check(required) ==
    IF required = PortNone THEN "RequiresPort"
    ELSE IF required \notin {PortInput, PortOutput} THEN "ValueError"
    ELSE "ok"

\* Faulty variant of is_self_connection: the self-connection check is left out.
is_self_connection_never(s, n, c, required) == FALSE

\* can_connect, 1.5) Forbid connecting the node to itself
is_self_connection(s, n, c, required) ==
    get_node(s, c, opposite_port(required)) = n

\* Faulty variant of node_port_is_empty: every port counts as vacant.
node_port_is_empty_always(s, n, port_type, port_index) == TRUE

\* Faulty variant of node_port_is_empty: the policy is honoured whatever the
\* direction.
node_port_is_empty_any_many(s, n, port_type, port_index) ==
    IF s.entries[n][port_type][port_index] = {} THEN TRUE
    ELSE port_out_connection_policy(n, port_index) = "many"

\* node_port_is_empty(port_type, port_index) of the engine built on node n
node_port_is_empty(s, n, port_type, port_index) ==
    IF s.entries[n][port_type][port_index] = {} THEN TRUE
    ELSE port_type = PortOutput
         /\ port_out_connection_policy(n, port_index) = "many"

\* Faulty variant of resolve_converter: the registry is asked even when the
\* type ids are equal.
resolve_converter_always_lookup(required, connection_id, candidate_id) ==
    IF required = PortInput
    THEN get_type_converter(connection_id, candidate_id)
    ELSE get_type_converter(candidate_id, connection_id)

\* Faulty variant of resolve_converter: the converter is looked up from the
\* connection's type to the candidate port's type whatever the direction.
resolve_converter_one_way(required, connection_id, candidate_id) ==
    IF connection_id = candidate_id
    THEN [exc |-> "ok", converter |-> DefaultTypeConverter]
    ELSE get_type_converter(connection_id, candidate_id)

\* can_connect, 4) equal type ids give the default converter, otherwise the
\* registry is asked for a converter from the output side to the input side
resolve_converter(required, connection_data_type_id, candidate_node_data_type_id) ==
    IF connection_data_type_id = candidate_node_data_type_id
    THEN [exc |-> "ok", converter |-> DefaultTypeConverter]
    ELSE IF required = PortInput
         THEN get_type_converter(connection_data_type_id,
                                 candidate_node_data_type_id)
         ELSE get_type_converter(candidate_node_data_type_id,
                                 connection_data_type_id)

Failure(exc) ==
    [exc |-> exc, port_index |-> INVALID, converter |-> DefaultTypeConverter]

\* Faulty variant of can_connect: the hit-test is made before the
\* self-connection check.
can_connect_hit_first(s, n, c, hit, unknown) ==
    LET required == connection_required_port(s, c)
        first == requires_port_check(required)
    IN  IF first # "ok" THEN Failure(first)
        ELSE IF hit = INVALID THEN Failure("ConnectionPoint")
        ELSE IF is_self_connection(s, n, c, required)
        THEN Failure("SelfConnection")
        ELSE IF ~ node_port_is_empty(s, n, required, hit)
        THEN Failure("PortNotEmpty")
        ELSE LET conv == resolve_converter(
                            required,
                            connection_data_type(s, c, opposite_port(required),
                                                 unknown),
                            data_type(n, required, hit))
             IN  IF conv.exc # "ok" THEN Failure(conv.exc)
                 ELSE [exc |-> "ok", port_index |-> hit,
                       converter |-> conv.converter]

\* can_connect() of the engine built on (node n, connection c) in state s.
\* hit: what node_port_index_under_scene_point answers for the connection's
\* dangling end; unknown: the connection's type when the opposite end is
\* not bound.  exc = "ok" stands for the returned (port_index, converter).
can_connect(s, n, c, hit, unknown) ==
    LET required == connection_required_port(s, c)
        first == requires_port_check(required)
    IN  IF first # "ok" THEN Failure(first)
        ELSE IF is_self_connection(s, n, c, required)
        THEN Failure("SelfConnection")
        ELSE IF hit = INVALID THEN Failure("ConnectionPoint")
        ELSE IF ~ node_port_is_empty(s, n, required, hit)
        THEN Failure("PortNotEmpty")
        ELSE LET conv == resolve_converter(
                            required,
                            connection_data_type(s, c, opposite_port(required),
                                                 unknown),
                            data_type(n, required, hit))
             IN  IF conv.exc # "ok" THEN Failure(conv.exc)
                 ELSE [exc |-> "ok", port_index |-> hit,
                       converter |-> conv.converter]

\* Faulty variant of can_connect_state: a successful validation already
\* records the connection on the candidate port.
can_connect_state_reserves(s, n, c, hit, unknown) ==
    IF can_connect(s, n, c, hit, unknown).exc = "ok"
    THEN set_connection(s, n, connection_required_port(s, c), hit, c)
    ELSE s

\* The state can_connect() leaves: it only reads the connection's state, the
\* node's entries, the data model and the registry, and assigns locals.
can_connect_state(s, n, c, hit, unknown) == s

\* The state node_port_is_empty() leaves: it reads the node's entries and
\* the output port's connection policy.
node_port_is_empty_state(s, n, port_type, port_index) == s

\* The failures of the NodeConnectionFailure category (what try_connect
\* catches); ValueError is not one of them.
NodeConnectionFailure ==
    {"RequiresPort", "SelfConnection", "ConnectionPoint", "PortNotEmpty",
     "NoConverter"}

\* What a collaborator callback can observe of the gesture on (n, c) at end
\* (port_type, port_index) when it runs in state s: is the connection
\* recorded in the node's slot, is the connection's end bound to the slot,
\* the required port, and whether the two states agree everywhere.
Observe(s, n, c, port_type, port_index) ==
    [recorded |-> port_index \in PortIndexes
                  /\ c \in s.entries[n][port_type][port_index],
     bound |-> s.conn_node[c][port_type] = n
               /\ s.conn_port[c][port_type] = port_index,
     required |-> s.required_port[c],
     consistent |-> Consistent(s)]

\* A collaborator callback: its name, the node and port index it is given,
\* and what it can observe.
Call(cb, n, index, seen) ==
    [cb |-> cb, node |-> n, index |-> index, seen |-> seen]

\* Faulty variant of attach_converter: the resolved converter is dropped.
attach_converter_never(s, c, conv) == s

\* try_connect, 1.5): "if converter: set_type_converter(converter)"
attach_converter(s, c, conv) ==
    IF conv # DefaultTypeConverter THEN set_type_converter(s, c, conv) ELSE s

\* Faulty variant of poke_model: the output node is never notified.
poke_model_never(s, c, seen) == << >>

\* try_connect, 5) Poke model to initiate data transfer
poke_model(s, c, seen) ==
    IF get_node(s, c, PortOutput) # NoNode
    THEN << Call("on_data_updated", get_node(s, c, PortOutput),
                 get_port_index(s, c, PortOutput), seen) >>
    ELSE << >>

\* try_connect, 1.5) to 5): what it does once can_connect has answered
\* (port_index, conv)
commit(s, n, c, port_index, conv) ==
    LET required == connection_required_port(s, c)
        s1 == attach_converter(s, c, conv)
        s2 == set_connection(s1, n, required, port_index, c)
        s3 == set_node_to_port(s2, c, n, required, port_index)
        seen == Observe(s3, n, c, required, port_index)
    IN  [ret |-> "True", exc |-> "ok", state |-> s3,
         calls |-> << Call("move_connections", n, INVALID, seen) >>
                   \o poke_model(s3, c, seen)]

\* Faulty variant of try_connect: the connection is recorded in the node's
\* slot before can_connect is asked.
try_connect_bind_first(s, n, c, hit, unknown) ==
    LET r == can_connect(s, n, c, hit, unknown)
        required == connection_required_port(s, c)
        early == IF required \in Directions /\ hit \in PortIndexes
                 THEN set_connection(s, n, required, hit, c) ELSE s
    IN  IF r.exc \in NodeConnectionFailure
        THEN [ret |-> "False", exc |-> r.exc, state |-> early,
              calls |-> << >>]
        ELSE IF r.exc # "ok"
        THEN [ret |-> "raised", exc |-> r.exc, state |-> s, calls |-> << >>]
        ELSE commit(s, n, c, r.port_index, r.converter)

\* Faulty variant of try_connect: every exception of can_connect is caught.
try_connect_catch_all(s, n, c, hit, unknown) ==
    LET r == can_connect(s, n, c, hit, unknown)
    IN  IF r.exc # "ok"
        THEN [ret |-> "False", exc |-> r.exc, state |-> s, calls |-> << >>]
        ELSE commit(s, n, c, r.port_index, r.converter)

\* try_connect() of the engine built on (n, c): the outcome, the state it
\* leaves and the callbacks it makes, in order.  A NodeConnectionFailure is
\* caught and answered False; any other exception propagates.
try_connect(s, n, c, hit, unknown) ==
    LET r == can_connect(s, n, c, hit, unknown)
    IN  IF r.exc \in NodeConnectionFailure
        THEN [ret |-> "False", exc |-> r.exc, state |-> s, calls |-> << >>]
        ELSE IF r.exc # "ok"
        THEN [ret |-> "raised", exc |-> r.exc, state |-> s, calls |-> << >>]
        ELSE commit(s, n, c, r.port_index, r.converter)

\* Faulty variant of disconnect: the node's slot is not cleared.
disconnect_keep_entry(s, n, c, port_to_disconnect) ==
    LET port_index == get_port_index(s, c, port_to_disconnect)
        s2 == clear_node(s, c, port_to_disconnect)
        s3 == set_required_port(s2, c, port_to_disconnect)
    IN  [ret |-> "None", exc |-> "ok", state |-> s3,
         calls |-> << Call("propagate_empty_data", n, port_index,
                           Observe(s, n, c, port_to_disconnect, port_index)),
                      Call("grabMouse", n, INVALID,
                           Observe(s3, n, c, port_to_disconnect, port_index)) >>]

\* Faulty variant of disconnect: the end is not marked as required again.
disconnect_no_required(s, n, c, port_to_disconnect) ==
    LET port_index == get_port_index(s, c, port_to_disconnect)
        s1 == erase_connection(s, n, port_to_disconnect, port_index, c)
        s2 == clear_node(s1, c, port_to_disconnect)
    IN  [ret |-> "None", exc |-> "ok", state |-> s2,
         calls |-> << Call("propagate_empty_data", n, port_index,
                           Observe(s1, n, c, port_to_disconnect, port_index)),
                      Call("grabMouse", n, INVALID,
                           Observe(s2, n, c, port_to_disconnect, port_index)) >>]

\* Faulty variant of disconnect: the node's whole slot is emptied, whatever
\* other connections share the port.
disconnect_clear_slot(s, n, c, port_to_disconnect) ==
    LET port_index == get_port_index(s, c, port_to_disconnect)
        s1 == [s EXCEPT !.entries[n][port_to_disconnect][port_index] = {}]
        s2 == clear_node(s1, c, port_to_disconnect)
        s3 == set_required_port(s2, c, port_to_disconnect)
    IN  [ret |-> "None", exc |-> "ok", state |-> s3,
         calls |-> << Call("propagate_empty_data", n, port_index,
                           Observe(s1, n, c, port_to_disconnect, port_index)),
                      Call("grabMouse", n, INVALID,
                           Observe(s3, n, c, port_to_disconnect, port_index)) >>]

\* Faulty variant of disconnect: the required port is assigned before "no
\* data" is propagated and the binding cleared.
disconnect_require_first(s, n, c, port_to_disconnect) ==
    LET port_index == get_port_index(s, c, port_to_disconnect)
        s1 == erase_connection(s, n, port_to_disconnect, port_index, c)
        s2 == set_required_port(s1, c, port_to_disconnect)
        s3 == clear_node(s2, c, port_to_disconnect)
    IN  [ret |-> "None", exc |-> "ok", state |-> s3,
         calls |-> << Call("propagate_empty_data", n, port_index,
                           Observe(s2, n, c, port_to_disconnect, port_index)),
                      Call("grabMouse", n, INVALID,
                           Observe(s3, n, c, port_to_disconnect, port_index)) >>]

\* Faulty variant of disconnect: "no data" is propagated after the
\* connection's end was cleared.
disconnect_propagate_last(s, n, c, port_to_disconnect) ==
    LET port_index == get_port_index(s, c, port_to_disconnect)
        s1 == erase_connection(s, n, port_to_disconnect, port_index, c)
        s2 == clear_node(s1, c, port_to_disconnect)
        s3 == set_required_port(s2, c, port_to_disconnect)
    IN  [ret |-> "None", exc |-> "ok", state |-> s3,
         calls |-> << Call("propagate_empty_data", n, port_index,
                           Observe(s2, n, c, port_to_disconnect, port_index)),
                      Call("grabMouse", n, INVALID,
                           Observe(s3, n, c, port_to_disconnect, port_index)) >>]

\* disconnect(port_to_disconnect) of the engine built on (n, c).  The method
\* has no return statement: it answers None.
disconnect(s, n, c, port_to_disconnect) ==
    LET port_index == get_port_index(s, c, port_to_disconnect)
        s1 == erase_connection(s, n, port_to_disconnect, port_index, c)
        s2 == clear_node(s1, c, port_to_disconnect)
        s3 == set_required_port(s2, c, port_to_disconnect)
    IN  [ret |-> "None", exc |-> "ok", state |-> s3,
         calls |-> << Call("propagate_empty_data", n, port_index,
                           Observe(s1, n, c, port_to_disconnect, port_index)),
                      Call("grabMouse", n, INVALID,
                           Observe(s3, n, c, port_to_disconnect, port_index)) >>]

\* ---------------------------------------------------------------- actions
HitResults == PortIndexes \cup {INVALID}

\* The record of an engine call: the engine's node and connection, the
\* direction concerned (the required port, or disconnect's argument), the
\* port index given by the hit-test (or bound, for disconnect), the
\* connection's type compared, the outcome, can_connect's answer, the
\* callbacks made and the state before the call.  round_trip: the call is a
\* disconnect that directly follows the successful try_connect of the same
\* end on the same node; origin is then the state before that try_connect.
LastCall(op, n, c, port, index, ctype, exc, ret, ri, rc, calls, rt, origin, reuse) ==
    [op |-> op, node |-> n, conn |-> c, port |-> port, index |-> index,
     ctype |-> ctype, exc |-> exc, ret |-> ret,
     result_index |-> ri, result_conv |-> rc,
     calls |-> calls, pre |-> Current,
     round_trip |-> rt, origin |-> origin, reuse |-> reuse]

\* The reuse of an output port, followed over three calls: (1) a
\* try_connect of connection `conn` onto an output port is refused with
\* PortNotEmptyFailure, (2) the next call disconnects another connection from
\* that port, (3) the call after it is a try_connect of `conn` onto the port.
NoReuse == [stage |-> 0, conn |-> 0]

ReuseOfTry(n, c, hit, exc) ==
    IF /\ last.op = "disconnect"
       /\ last.reuse.stage = 2
       /\ last.reuse.conn = c
       /\ last.node = n
       /\ last.index = hit
    THEN [stage |-> 3, conn |-> c]
    ELSE IF /\ exc = "PortNotEmpty"
            /\ connection_required_port(Current, c) = PortOutput
         THEN [stage |-> 1, conn |-> c]
         ELSE NoReuse

ReuseOfDisconnect(n, c, port_to_disconnect, port_index) ==
    IF /\ last.op = "try_connect"
       /\ last.reuse.stage = 1
       /\ last.conn # c
       /\ last.node = n
       /\ last.index = port_index
       /\ port_to_disconnect = PortOutput
    THEN [stage |-> 2, conn |-> last.conn]
    ELSE NoReuse

Install(s) ==
    /\ entries' = s.entries
    /\ conn_node' = s.conn_node
    /\ conn_port' = s.conn_port
    /\ required_port' = s.required_port
    /\ converter' = s.converter

\* The scene creates each connection bound at one end (create_connection_node)
\* and requiring the opposite one; no converter is attached.
Init ==
    \E start \in [Conns -> Nodes \X Directions \X PortIndexes] :
        /\ \A c1, c2 \in Conns :
              (c1 # c2 /\ start[c1] = start[c2]) =>
                  (start[c1][2] = PortOutput
                   /\ port_out_connection_policy(start[c1][1], start[c1][3])
                        = "many")
        /\ entries = [n \in Nodes |-> [d \in Directions |-> [i \in PortIndexes |->
                        {c \in Conns : start[c] = <<n, d, i>>}]]]
        /\ conn_node = [c \in Conns |-> [d \in Directions |->
                        IF start[c][2] = d THEN start[c][1] ELSE NoNode]]
        /\ conn_port = [c \in Conns |-> [d \in Directions |->
                        IF start[c][2] = d THEN start[c][3] ELSE INVALID]]
        /\ required_port = [c \in Conns |-> opposite_port(start[c][2])]
        /\ converter = [c \in Conns |-> DefaultTypeConverter]
        /\ last = [op |-> "init", node |-> NoNode, conn |-> 0, port |-> PortNone,
                   index |-> INVALID, ctype |-> "T1", exc |-> "ok", ret |-> "None",
                   result_index |-> INVALID,
                   result_conv |-> DefaultTypeConverter, calls |-> << >>,
                   pre |-> State(entries, conn_node, conn_port, required_port,
                                 converter),
                   round_trip |-> FALSE,
                   origin |-> State(entries, conn_node, conn_port,
                                    required_port, converter),
                   reuse |-> NoReuse]

\* The type can_connect compares: the opposite end's, or the collaborator's
\* answer when that end is not bound.
UsedType(s, c, unknown) ==
    connection_data_type(s, c, opposite_port(connection_required_port(s, c)),
                         unknown)

UnknownTypes(s, c) ==
    IF get_node(s, c, opposite_port(connection_required_port(s, c))) # NoNode
    THEN {"T1"} ELSE DataTypes

CanConnect ==
    \E n \in Nodes, c \in Conns, hit \in HitResults :
      \E unknown \in UnknownTypes(Current, c) :
        LET r == can_connect(Current, n, c, hit, unknown)
        IN  /\ last' = LastCall("can_connect", n, c,
                                connection_required_port(Current, c), hit,
                                UsedType(Current, c, unknown), r.exc,
                                IF r.exc = "ok" THEN "tuple" ELSE "raised",
                                r.port_index, r.converter, << >>,
                                FALSE, Current, NoReuse)
            /\ Install(can_connect_state(Current, n, c, hit, unknown))

TryConnect ==
    \E n \in Nodes, c \in Conns, hit \in HitResults :
      \E unknown \in UnknownTypes(Current, c) :
        LET r == can_connect(Current, n, c, hit, unknown)
            t == try_connect(Current, n, c, hit, unknown)
        IN  /\ Install(t.state)
            /\ last' = LastCall("try_connect", n, c,
                                connection_required_port(Current, c), hit,
                                UsedType(Current, c, unknown), t.exc, t.ret,
                                r.port_index, r.converter, t.calls,
                                FALSE, Current, ReuseOfTry(n, c, hit, t.exc))

\* Precondition: the connection is bound at port_to_disconnect to the
\* engine's node.
Disconnect ==
    \E n \in Nodes, c \in Conns, port_to_disconnect \in Directions :
        /\ get_node(Current, c, port_to_disconnect) = n
        /\ LET t == disconnect(Current, n, c, port_to_disconnect)
               follows == /\ last.op = "try_connect"
                          /\ last.ret = "True"
                          /\ last.node = n
                          /\ last.conn = c
                          /\ last.port = port_to_disconnect
           IN  /\ Install(t.state)
               /\ last' = LastCall("disconnect", n, c, port_to_disconnect,
                                   get_port_index(Current, c, port_to_disconnect),
                                   "T1", t.exc, t.ret, INVALID,
                                   DefaultTypeConverter, t.calls, follows,
                                   IF follows THEN last.pre ELSE Current,
                                   ReuseOfDisconnect(n, c, port_to_disconnect,
                                       get_port_index(Current, c,
                                                      port_to_disconnect)))

NodePortIsEmpty ==
    \E n \in Nodes, port_type \in Directions, port_index \in PortIndexes :
        /\ last' = LastCall("node_port_is_empty", n, 0, port_type, port_index,
                            "T1", "ok",
                            IF node_port_is_empty(Current, n, port_type,
                                                  port_index)
                            THEN "True" ELSE "False",
                            INVALID, DefaultTypeConverter, << >>,
                            FALSE, Current, NoReuse)
        /\ Install(node_port_is_empty_state(Current, n, port_type, port_index))

\* A gesture either drops a dangling end on a node or drags a bound end away.
Next == TryConnect \/ Disconnect

Spec == Init /\ [][Next]_vars

\* The same, with the engine's two queries also called on their own.
NextQueries == TryConnect \/ Disconnect \/ CanConnect \/ NodePortIsEmpty

SpecQueries == Init /\ [][NextQueries]_vars

\* A value that is none of PortType.none, PortType.input, PortType.output.
InvalidPort == "invalid"

\* A broken caller assigns connection.required_port (the setter disconnect
\* uses) a value outside the enum.
AssignInvalidRequiredPort ==
    \E c \in Conns :
        /\ required_port[c] # InvalidPort
        /\ required_port' = [required_port EXCEPT ![c] = InvalidPort]
        /\ last' = LastCall("assign_required_port", NoNode, c, InvalidPort,
                            INVALID, "T1", "ok", "None", INVALID,
                            DefaultTypeConverter, << >>, FALSE, Current,
                            NoReuse)
        /\ UNCHANGED <<entries, conn_node, conn_port, converter>>

NextBrokenCaller == TryConnect \/ Disconnect \/ AssignInvalidRequiredPort

SpecBrokenCaller == Init /\ [][NextBrokenCaller]_vars

\* ================================================================ claims
\* Helpers over the record of the last call.
IsTryConnect == last.op = "try_connect"
Unchanged == Current = last.pre
PreRequired == last.pre.required_port[last.conn]
\* the slot (required direction, hit index) of the candidate node held a
\* connection before the call
PreOccupied == last.pre.entries[last.node][PreRequired][last.index] # {}
PreSelf ==
    last.pre.conn_node[last.conn][opposite_port(PreRequired)] = last.node
\* checks 1 to 3 of can_connect passed
PassedHitTest ==
    /\ IsTryConnect
    /\ PreRequired \in Directions
    /\ ~ PreSelf
    /\ last.index # INVALID

\* C1: when can_connect fails with a connection failure, try_connect answers
\* False, Node Port State and Connection State are what they were before the
\* call, and no collaborator callback is made.
C1_FailureLeavesState ==
    (IsTryConnect /\ last.exc \in NodeConnectionFailure) =>
        (last.ret = "False" /\ Unchanged /\ last.calls = << >>)

\* a try_connect refused for lack of a converter, after every other check
C1_Witness ==
    IsTryConnect /\ last.exc = "NoConverter" /\ last.ret = "False"

\* C2 (I2): a connection is recorded in node n's Port State at (d, i) iff the
\* connection's end d is bound to (n, i).
C2_Bidirectional == Consistent(Current)

\* a connection bound at both ends, after a disconnect of the other one
C2_Witness ==
    /\ last.op = "disconnect"
    /\ \E c \in Conns : \A d \in Directions : conn_node[c][d] # NoNode

\* C3 (I3): no connection has both ends bound to the same node, and a
\* try_connect on a node already bound at an end of the connection answers
\* False.
C3_NoSelfConnection ==
    /\ \A c \in Conns :
          conn_node[c][PortInput] # NoNode =>
              conn_node[c][PortInput] # conn_node[c][PortOutput]
    /\ (IsTryConnect
        /\ \E d \in Directions : last.pre.conn_node[last.conn][d] = last.node)
          => last.ret = "False"

\* a drop on the node of the opposite end, over a vacant port of it
C3_Witness ==
    /\ IsTryConnect
    /\ last.exc = "SelfConnection"
    /\ last.index # INVALID
    /\ ~ PreOccupied

\* C4 (I4): an input port holds at most one connection; an output port holds
\* at most one unless its policy is many.
C4_PortOccupancy ==
    \A n \in Nodes, i \in PortIndexes :
        /\ Cardinality(entries[n][PortInput][i]) <= 1
        /\ (Cardinality(entries[n][PortOutput][i]) <= 1
            \/ port_out_connection_policy(n, i) = "many")

\* a many-policy output shared by two connections, and a refused second
\* connection elsewhere
C4_Witness ==
    /\ \E n \in Nodes, i \in PortIndexes :
          Cardinality(entries[n][PortOutput][i]) = 2
    /\ IsTryConnect
    /\ last.exc = "PortNotEmpty"

\* C5: a successful try_connect of end d on node n at index i followed by
\* disconnect(d) on the same node leaves the connection requiring d with end
\* d unbound and absent from n's slot (d, i); Node Port State and the bound
\* ends are what they were before the try_connect.
C5_RoundTrip ==
    (last.op = "disconnect" /\ last.round_trip) =>
        /\ required_port[last.conn] = last.port
        /\ conn_node[last.conn][last.port] = NoNode
        /\ conn_port[last.conn][last.port] = INVALID
        /\ last.conn \notin entries[last.node][last.port][last.index]
        /\ entries = last.origin.entries
        /\ conn_node = last.origin.conn_node
        /\ conn_port = last.origin.conn_port
        /\ required_port = last.origin.required_port

\* the round trip of an end whose opposite end stays bound
C5_Witness ==
    /\ last.op = "disconnect"
    /\ last.round_trip
    /\ conn_node[last.conn][opposite_port(last.port)] # NoNode

\* the candidate port's policy lets it take one more connection
PreManyOutput ==
    /\ PreRequired = PortOutput
    /\ port_out_connection_policy(last.node, last.index) = "many"

\* C6: can_connect checks (1) required port, (2) self-connection,
\* (3) hit-test, (4) occupancy, (5) types, in that order, and raises the
\* failure of the first check that fails.
C6_CheckOrder ==
    IsTryConnect =>
        /\ (PreRequired = PortNone => last.exc = "RequiresPort")
        /\ ((PreRequired \in Directions /\ PreSelf)
              => last.exc = "SelfConnection")
        /\ ((PreRequired \in Directions /\ ~ PreSelf /\ last.index = INVALID)
              => last.exc = "ConnectionPoint")
        /\ (PassedHitTest
              => last.exc \in {"PortNotEmpty", "NoConverter", "ok"})
        /\ ((PassedHitTest /\ PreOccupied /\ ~ PreManyOutput)
              => last.exc = "PortNotEmpty")

\* a drop on the node of the opposite end with the dangling end over no port:
\* both the self-connection check and the hit-test would fail
C6_Witness ==
    /\ IsTryConnect
    /\ last.exc = "SelfConnection"
    /\ last.index = INVALID

\* C7: once checks 1 to 3 pass and the hit-test resolves (d, i), can_connect
\* raises PortNotEmptyFailure iff the slot holds a connection and not (d is
\* output and the policy is many); node_port_is_empty(d, i) is true exactly
\* in the complementary case.
C7_OccupancyRule ==
    /\ PassedHitTest =>
          (last.exc = "PortNotEmpty" <=> (PreOccupied /\ ~ PreManyOutput))
    /\ \A n \in Nodes, d \in Directions, i \in PortIndexes :
          node_port_is_empty(Current, n, d, i) <=>
              ~ (/\ entries[n][d][i] # {}
                 /\ ~ (d = PortOutput
                       /\ port_out_connection_policy(n, i) = "many"))

\* an occupied many-policy output takes one more connection, while an input
\* port of a node is occupied
C7_Witness ==
    /\ PassedHitTest
    /\ PreOccupied
    /\ PreManyOutput
    /\ last.ret = "True"
    /\ \E n \in Nodes, i \in PortIndexes : entries[n][PortInput][i] # {}

\* the candidate port's declared type, and the pair (output side, input
\* side) a converter is looked up for
PrePortType == data_type(last.node, PreRequired, last.index)
PrePair ==
    IF PreRequired = PortInput THEN <<last.ctype, PrePortType>>
    ELSE <<PrePortType, last.ctype>>

\* C8: once checks 1 to 4 pass, can_connect returns (index, default
\* converter) when the type ids are equal, (index, registered converter) when
\* they differ and one is registered, and fails with a connection failure
\* (try_connect False, nothing bound) when none is registered.
C8_TypeResolution ==
    (PassedHitTest /\ last.exc # "PortNotEmpty") =>
        /\ (last.ctype = PrePortType =>
              /\ last.ret = "True"
              /\ last.result_index = last.index
              /\ last.result_conv = DefaultTypeConverter)
        /\ ((last.ctype # PrePortType /\ PrePair \in RegisteredConverters) =>
              /\ last.ret = "True"
              /\ last.result_index = last.index
              /\ last.result_conv = PrePair)
        /\ ((last.ctype # PrePortType /\ PrePair \notin RegisteredConverters) =>
              /\ last.exc \in NodeConnectionFailure
              /\ last.ret = "False"
              /\ Unchanged)

\* a connection bound through the registered converter
C8_Witness ==
    /\ PassedHitTest
    /\ last.ret = "True"
    /\ last.ctype # PrePortType
    /\ last.result_conv = <<"T1", "T2">>

BoundAtBothEnds(c) == \A d \in Directions : conn_node[c][d] # NoNode
OutputType(c) ==
    data_type(conn_node[c][PortOutput], PortOutput, conn_port[c][PortOutput])
InputType(c) ==
    data_type(conn_node[c][PortInput], PortInput, conn_port[c][PortInput])

\* C9 (I5): whenever a connection is bound at both ends, the output port's
\* type equals the input port's type or the attached converter is the one
\* registered from the output port's type to the input port's type; a
\* successful try_connect attaches the resolved converter unless it is the
\* identity converter.
C9_TypedBinding ==
    /\ \A c \in Conns :
          BoundAtBothEnds(c) =>
              \/ OutputType(c) = InputType(c)
              \/ /\ converter[c] = <<OutputType(c), InputType(c)>>
                 /\ converter[c] \in RegisteredConverters
    /\ (IsTryConnect /\ last.ret = "True") =>
          converter[last.conn] =
              IF last.result_conv # DefaultTypeConverter
              THEN last.result_conv
              ELSE last.pre.converter[last.conn]

\* a connection once bound through a converter, reconnected between ports of
\* equal type
C9_Witness ==
    /\ IsTryConnect
    /\ last.ret = "True"
    /\ BoundAtBothEnds(last.conn)
    /\ OutputType(last.conn) = InputType(last.conn)
    /\ last.pre.converter[last.conn] # DefaultTypeConverter

\* C10, as claimed: every collaborator callback of a try_connect or a
\* disconnect observes Node Port State and Connection State consistent with
\* each other.
C10_CallbacksSeeConsistent ==
    \A k \in 1 .. Len(last.calls) : last.calls[k].seen.consistent

\* C10, amended: every callback but propagate_empty_data observes the two
\* states consistent; propagate_empty_data runs when the connection has left
\* the node's slot and its end is still bound to it.
C10_CallbacksButPropagate ==
    \A k \in 1 .. Len(last.calls) :
        IF last.calls[k].cb = "propagate_empty_data"
        THEN /\ ~ last.calls[k].seen.recorded
             /\ last.calls[k].seen.bound
             /\ ~ last.calls[k].seen.consistent
        ELSE /\ last.calls[k].seen.consistent
             /\ (IsTryConnect =>
                    (last.calls[k].seen.recorded /\ last.calls[k].seen.bound))

\* a disconnect, whose first callback is propagate_empty_data
C10_Witness ==
    /\ last.op = "disconnect"
    /\ Len(last.calls) = 2
    /\ last.calls[1].cb = "propagate_empty_data"
    /\ last.calls[2].cb = "grabMouse"

\* the connection's type and the candidate port's agree, or a converter is
\* registered from the output side to the input side
PreTypesOk == last.ctype = PrePortType \/ PrePair \in RegisteredConverters

C12_InvalidPortPropagates ==
    (IsTryConnect /\ PreRequired \notin {PortNone, PortInput, PortOutput}) =>
        /\ last.exc = "ValueError"
        /\ last.exc \notin NodeConnectionFailure
        /\ last.ret = "raised"
        /\ Unchanged
        /\ last.calls = << >>

\* a try_connect on a connection whose required port is invalid
C12_Witness ==
    /\ IsTryConnect
    /\ PreRequired = InvalidPort
    /\ last.exc = "ValueError"

\* the positions of the on_data_updated callbacks among the last call's
OnDataUpdatedCalls ==
    {k \in 1 .. Len(last.calls) : last.calls[k].cb = "on_data_updated"}

\* C13: a successful try_connect calls on_data_updated(output port index) on
\* the connection's output node exactly once iff the connection has a bound
\* output end after the binding, after both states were updated and after
\* the geometry recomputation was requested; with the output end unbound, and
\* on failure, no on_data_updated is issued.
C13_DataNotification ==
    IsTryConnect =>
        IF last.ret = "True" /\ conn_node[last.conn][PortOutput] # NoNode
        THEN /\ OnDataUpdatedCalls = {2}
             /\ Len(last.calls) = 2
             /\ last.calls[1].cb = "move_connections"
             /\ last.calls[2].node = conn_node[last.conn][PortOutput]
             /\ last.calls[2].index = conn_port[last.conn][PortOutput]
             /\ last.calls[2].seen.recorded
             /\ last.calls[2].seen.bound
             /\ last.calls[2].seen.consistent
        ELSE OnDataUpdatedCalls = {}

\* an input end bound on one node: the node of the output end is notified
C13_Witness ==
    /\ IsTryConnect
    /\ last.ret = "True"
    /\ PreRequired = PortInput
    /\ OnDataUpdatedCalls = {2}
    /\ last.calls[2].node # last.node

\* the other case of C13: an end bound while the output end is unbound
C13_WitnessUnbound ==
    /\ IsTryConnect
    /\ last.ret = "True"
    /\ conn_node[last.conn][PortOutput] = NoNode
    /\ Len(last.calls) = 1

\* C14: disconnect answers a boolean for every call that satisfies its
\* precondition.
C14_DisconnectReturnsBool ==
    last.op = "disconnect" => last.ret \in {"True", "False"}

PreOutputSide == IF PreRequired = PortInput THEN last.ctype ELSE PrePortType
PreInputSide == IF PreRequired = PortInput THEN PrePortType ELSE last.ctype

\* C16: when the types differ, the converter can_connect looks up maps the
\* output-side type to the input-side type (connection type -> port type for
\* a required input, port type -> connection type for a required output); a
\* converter registered only for the reverse direction is never returned.
C16_ConverterOrientation ==
    (PassedHitTest /\ last.exc # "PortNotEmpty" /\ last.ctype # PrePortType) =>
        /\ (last.exc = "ok" <=>
                <<PreOutputSide, PreInputSide>> \in RegisteredConverters)
        /\ (last.exc = "ok" =>
                last.result_conv = <<PreOutputSide, PreInputSide>>)
        /\ (<<PreOutputSide, PreInputSide>> \notin RegisteredConverters =>
                /\ last.exc = "NoConverter"
                /\ last.result_conv # <<PreInputSide, PreOutputSide>>)

\* an output end dropped on a port whose type only the reverse converter
\* (connection type -> port type) is registered for
C16_Witness ==
    /\ PassedHitTest
    /\ PreRequired = PortOutput
    /\ last.exc = "NoConverter"
    /\ <<last.ctype, PrePortType>> \in RegisteredConverters

\* C17: can_connect and node_port_is_empty are pure queries: whether they
\* answer or raise, the nodes' entries and the connections' bound ends,
\* required port and converter are as before the call, so a try_connect made
\* right after a can_connect with the same hit-test and the same connection
\* type has the outcome can_connect announced and makes the transition it
\* would have made before the query.
C17_PureQueries ==
    /\ last.op \in {"can_connect", "node_port_is_empty"} => Unchanged
    /\ last.op = "can_connect" =>
          /\ try_connect(Current, last.node, last.conn, last.index, last.ctype)
                = try_connect(last.pre, last.node, last.conn, last.index,
                              last.ctype)
          /\ try_connect(Current, last.node, last.conn, last.index,
                         last.ctype).exc = last.exc

\* can_connect answered a (port index, converter) pair
C17_Witness ==
    /\ last.op = "can_connect"
    /\ last.exc = "ok"
    /\ last.ret = "tuple"
    /\ last.result_index \in PortIndexes

\* can_connect raised, and node_port_is_empty answered False
C17_WitnessRaised == last.op = "can_connect" /\ last.exc = "PortNotEmpty"
C17_WitnessOccupied == last.op = "node_port_is_empty" /\ last.ret = "False"

\* What a call on connection c at slot (n, d, i) must leave alone: every
\* other slot of every node, the other connections recorded in the slot,
\* every other connection's state, and c's binding at the opposite end.
FrameOf(n, c, d, i) ==
    /\ \A m \in Nodes, e \in Directions, j \in PortIndexes :
          <<m, e, j>> # <<n, d, i>> =>
              entries[m][e][j] = last.pre.entries[m][e][j]
    /\ entries[n][d][i] \ {c} = last.pre.entries[n][d][i] \ {c}
    /\ \A o \in Conns \ {c} :
          /\ conn_node[o] = last.pre.conn_node[o]
          /\ conn_port[o] = last.pre.conn_port[o]
          /\ required_port[o] = last.pre.required_port[o]
          /\ converter[o] = last.pre.converter[o]
    /\ conn_node[c][opposite_port(d)] = last.pre.conn_node[c][opposite_port(d)]
    /\ conn_port[c][opposite_port(d)] = last.pre.conn_port[c][opposite_port(d)]

\* C18: a successful try_connect changes only the candidate node's slot
\* (required direction, resolved index), the connection's end in that
\* direction, its required port and its converter; disconnect(d) changes
\* only the engine node's slot (d, bound index), the connection's end d and
\* its required port.  The opposite end's binding, the other connections of
\* a shared port and every other slot are as before.
C18_MutationFrame ==
    /\ (IsTryConnect /\ last.ret = "True") =>
          /\ FrameOf(last.node, last.conn, PreRequired, last.result_index)
          /\ entries[last.node][PreRequired][last.result_index]
                = last.pre.entries[last.node][PreRequired][last.result_index]
                    \cup {last.conn}
    /\ last.op = "disconnect" =>
          /\ FrameOf(last.node, last.conn, last.port, last.index)
          /\ entries[last.node][last.port][last.index]
                = last.pre.entries[last.node][last.port][last.index]
                    \ {last.conn}
          /\ converter[last.conn] = last.pre.converter[last.conn]

\* a connection was dragged away from a port another connection stays on
C18_Witness ==
    /\ last.op = "disconnect"
    /\ entries[last.node][last.port][last.index] # {}
    /\ last.conn \in last.pre.entries[last.node][last.port][last.index]

\* a connection was bound to an output port that already held one
C18_WitnessShared ==
    /\ IsTryConnect
    /\ last.ret = "True"
    /\ last.pre.entries[last.node][PreRequired][last.result_index] # {}

\* C19: in disconnect(d), "no data" is propagated after the connection left
\* the node's slot and before its end d is cleared (a disconnected input end
\* is still bound to the input node when that node is notified); the
\* required port becomes d only after the end is cleared, and the pointer
\* grab is requested last.
C19_DisconnectOrdering ==
    last.op = "disconnect" =>
        /\ Len(last.calls) = 2
        /\ last.calls[1].cb = "propagate_empty_data"
        /\ ~ last.calls[1].seen.recorded
        /\ last.calls[1].seen.bound
        /\ last.calls[1].seen.required = last.pre.required_port[last.conn]
        /\ last.calls[1].seen.required # last.port
        /\ (last.port = PortInput =>
                last.calls[1].node = last.pre.conn_node[last.conn][PortInput])
        /\ last.calls[2].cb = "grabMouse"
        /\ ~ last.calls[2].seen.recorded
        /\ ~ last.calls[2].seen.bound
        /\ last.calls[2].seen.required = last.port
        /\ required_port[last.conn] = last.port
        /\ conn_node[last.conn][last.port] = NoNode

\* the input end of a connection was disconnected
C19_Witness ==
    /\ last.op = "disconnect"
    /\ last.port = PortInput
    /\ last.calls[1].seen.bound
    /\ last.calls[1].node = last.node

====
